---- MODULE Spec2Model ----
(***************************************************************************)
(* A model of the Migrator of src/index.ts (a bun:sqlite port of kysely's  *)
(* migrator).  Migration names are the integers 1..MaxName, ordered as the *)
(* strings they stand for are ordered by Array.prototype.sort; timestamps  *)
(* are the integers 0..MaxClock, ordered as the ISO-8601 strings they      *)
(* stand for are ordered by sqlite's "order by timestamp".                 *)
(*                                                                         *)
(* A call of migrate() is a sequence of steps of one runner: the program   *)
(* counter pc[r] names the statement the call is at.  The database is      *)
(* shared by the runners; a write transaction works on a private copy of   *)
(* the log table (txLog) that COMMIT installs and ROLLBACK drops.          *)
(***************************************************************************)
EXTENDS Integers, Sequences, FiniteSets, TLC

\* ------------------------------------------------------------------ bounds
MaxName == 3
MaxClock == 1
MaxStep == 1

Names == 1..MaxName
Times == 0..MaxClock
Runners == {"r1", "r2"}

\* migrateToLatest's step (src/index.ts:288): larger than any list's length.
Infinity == MaxName + 1
Steps == (-1 .. MaxStep) \cup {Infinity}
Directions == {"Up", "Down"}

VARIABLES
  provider,     \* what FileMigrationProvider.getMigrations returns: name -> "absent" | "up" | "updown"
  props,        \* Migrator.props: [allowUnorderedMigrations]
  tableExists,  \* the migration table exists in the database
  log,          \* the committed rows of the migration table: a set of [name, timestamp]
  applied,      \* per name: committed runs of up() minus committed runs of down()
  clock,        \* the wall clock new Date() reads
  lock,         \* the holder of sqlite's write lock, or "free"
  pc,           \* per runner: the statement its call of migrate() is at
  call,         \* per runner: the public method called, and what getMigrationDirectionAndStep
                \* returned once run() has called it
  state,        \* per runner: the MigrationState getState returned
  cand,         \* per runner: migrationsToRun / migrationsToRollback
  idx,          \* per runner: the loop index i (1-based)
  results,      \* per runner: the results array of migrateUp / migrateDown
  txLog,        \* per runner: the migration table as its open transaction sees it
  ran,          \* per runner: the up()/down() operations the call has run, in order
  ret,          \* per runner: what migrate() gave its caller
  log0,         \* per runner: the committed rows when the call started
  fault,        \* per runner: the failure the environment injected into the call
  streak,       \* how the latest finished call ended ("ok", or "failed": its batch failed) when it
                \* was migrateToLatest and no migration was added since, else "none"
  after,        \* per runner: the value of streak when the call started
  infos,        \* per runner: what getMigrations() gave its caller
  lastUp,       \* the names and the rows before of the latest finished call when it was
                \* an Up batch that succeeded and nothing of the folder or the clock was
                \* changed since, else NoUp
  record        \* which history is kept: "streak", "lastUp" or "none"

dbVars == <<tableExists, log, applied, clock, lock>>
envVars == <<provider, props>>
frameVars == <<call, state, cand, idx, results, txLog, ran>>
vars == <<provider, props, tableExists, log, applied, clock, lock, pc, call,
          state, cand, idx, results, txLog, ran, ret, log0, fault, streak, after,
          infos, lastUp, record>>

\* ----------------------------------------------------------- pure helpers

Min(a, b) == IF a <= b THEN a ELSE b

\* Array.prototype.slice(0, n): a negative n counts from the end.
SliceTo(s, n) ==
  IF n < 0 THEN SubSeq(s, 1, IF Len(s) + n > 0 THEN Len(s) + n ELSE 0)
  ELSE SubSeq(s, 1, Min(n, Len(s)))

\* Array.prototype.reverse.
Reverse(s) == [i \in 1..Len(s) |-> s[Len(s) + 1 - i]]

\* Array.prototype.sort on the keys of the provider's record.
RECURSIVE sort(_)
sort(S) ==
  IF S = {} THEN <<>>
  ELSE LET m == CHOOSE x \in S : \A y \in S : x <= y
       IN <<m>> \o sort(S \ {m})

\* A row sorts before another under "order by timestamp, name".
RowBefore(a, b) ==
  \/ a.timestamp < b.timestamp
  \/ a.timestamp = b.timestamp /\ a.name <= b.name

RECURSIVE orderByTimestampName(_)
orderByTimestampName(rows) ==
  IF rows = {} THEN <<>>
  ELSE LET m == CHOOSE x \in rows : \A y \in rows : RowBefore(x, y)
       IN <<m>> \o orderByTimestampName(rows \ {m})

\* The names of the rows of a table.
rowNames(rows) == {row.name : row \in rows}

\* Array.prototype.includes.
includes(s, x) == \E i \in 1..Len(s) : s[i] = x

\* ---------------------------------------------------------- the resolver

\* Migrator.resolveMigrations: the provider's migrations sorted by name, each
\* with its name; down is whether the migration has a down method.
resolveMigrations(src) ==
  LET keys == sort({n \in Names : src[n] # "absent"})
  IN [i \in 1..Len(keys) |-> [name |-> keys[i], down |-> src[keys[i]] = "updown"]]

\* An executed list ordered by name alone.
getExecutedMigrationsByName(rows) == sort(rowNames(rows))

\* Migrator.getExecutedMigrations: the logged names ordered by timestamp, name.
getExecutedMigrations(rows) ==
  LET ordered == orderByTimestampName(rows)
  IN [i \in 1..Len(ordered) |-> ordered[i].name]

\* A pending list that forgets to take the executed migrations out.
getPendingMigrationsAll(migrations, executedMigrations) == migrations

\* Migrator.getPendingMigrations.
getPendingMigrations(migrations, executedMigrations) ==
  SelectSeq(migrations, LAMBDA m : ~includes(executedMigrations, m.name))

\* A missing-migration check that never throws.
ensureNoMissingMigrationsNever(migrations, executedMigrations) == "none"

\* Migrator.ensureNoMissingMigrations: the error it throws, or "none".
ensureNoMissingMigrations(migrations, executedMigrations) ==
  IF \E i \in 1..Len(executedMigrations) :
       ~(\E j \in 1..Len(migrations) : migrations[j].name = executedMigrations[i])
  THEN "CorruptedMissing"
  ELSE "none"

\* An order check that looks at no index.
ensureMigrationsInOrderNever(migrations, executedMigrations) == "none"

\* Migrator.ensureMigrationsInOrder: the error thrown at the first index that
\* fails, or "none".  migrations[i]!.name past the list's end is a TypeError.
ensureMigrationsInOrder(migrations, executedMigrations) ==
  LET bad == {i \in 1..Len(executedMigrations) :
                \/ i > Len(migrations)
                \/ migrations[i].name # executedMigrations[i]}
  IN IF bad = {} THEN "none"
     ELSE LET i == CHOOSE k \in bad : \A j \in bad : k <= j
          IN IF i > Len(migrations) THEN "TypeError" ELSE "CorruptedOrder"

\* MigrationState.lastMigration: executedMigrations.at(-1); 0 stands for undefined.
\* A last migration taken from the front of the executed list.
lastMigrationFirst(executedMigrations) ==
  IF Len(executedMigrations) = 0 THEN 0 ELSE executedMigrations[1]

lastMigration(executedMigrations) ==
  IF Len(executedMigrations) = 0 THEN 0
  ELSE executedMigrations[Len(executedMigrations)]

\* A state in which the unordered-migrations allowance is not consulted.
getStateAlwaysOrdered(src, rows, allowUnordered) ==
  LET migrations == resolveMigrations(src)
      executedMigrations == getExecutedMigrations(rows)
      missing == ensureNoMissingMigrations(migrations, executedMigrations)
      order == ensureMigrationsInOrder(migrations, executedMigrations)
  IN [error |-> IF missing # "none" THEN missing ELSE order,
      migrations |-> migrations,
      executedMigrations |-> executedMigrations,
      lastMigration |-> lastMigration(executedMigrations),
      pendingMigrations |-> getPendingMigrations(migrations, executedMigrations)]

\* Migrator.getState: [error] is what it throws ("none": it returns the rest).
getState(src, rows, allowUnordered) ==
  LET migrations == resolveMigrations(src)
      executedMigrations == getExecutedMigrations(rows)
      missing == ensureNoMissingMigrations(migrations, executedMigrations)
      order == IF allowUnordered THEN "none"
               ELSE ensureMigrationsInOrder(migrations, executedMigrations)
  IN [error |-> IF missing # "none" THEN missing ELSE order,
      migrations |-> migrations,
      executedMigrations |-> executedMigrations,
      lastMigration |-> lastMigration(executedMigrations),
      pendingMigrations |-> getPendingMigrations(migrations, executedMigrations)]

NoState == [error |-> "none", migrations |-> <<>>, executedMigrations |-> <<>>,
            lastMigration |-> 0, pendingMigrations |-> <<>>]

\* ------------------------------------------------------------ the runner

\* A selection that starts at the second pending migration: slice(1, step).
migrationsToRunSkipFirst(st, step) ==
  SubSeq(st.pendingMigrations, 2, Min(step, Len(st.pendingMigrations)))

\* migrateUp's migrationsToRun.
\* A selection that slices from the end of the pending list.
migrationsToRunLast(st, step) ==
  LET p == st.pendingMigrations
      k == Min(step, Len(p))
  IN SubSeq(p, Len(p) - k + 1, Len(p))

migrationsToRun(st, step) == SliceTo(st.pendingMigrations, step)

\* Array.prototype.find on state.migrations; name 0 stands for undefined.
find(migrations, name) ==
  IF \E j \in 1..Len(migrations) : migrations[j].name = name
  THEN migrations[CHOOSE j \in 1..Len(migrations) : migrations[j].name = name]
  ELSE [name |-> 0, down |-> FALSE]

\* A rollback selection taken from the front of the executed list.
migrationsToRollbackOldest(st, step) ==
  LET picked == SliceTo(st.executedMigrations, step)
  IN [i \in 1..Len(picked) |-> find(st.migrations, picked[i])]

\* A rollback selection taken from the migrations of the provider.
migrationsToRollbackFromAll(st, step) == SliceTo(Reverse(st.migrations), step)

\* migrateDown's migrationsToRollback.
migrationsToRollback(st, step) ==
  LET picked == SliceTo(Reverse(st.executedMigrations), step)
  IN [i \in 1..Len(picked) |-> find(st.migrations, picked[i])]

\* A results array pre-populated with the wrong status.
notExecutedAsSuccess(ms, direction) ==
  [i \in 1..Len(ms) |->
     [migrationName |-> ms[i].name, direction |-> direction, status |-> "Success"]]

\* The pre-populated results array.
notExecuted(ms, direction) ==
  [i \in 1..Len(ms) |->
     [migrationName |-> ms[i].name, direction |-> direction, status |-> "NotExecuted"]]

result(name, direction, status) ==
  [migrationName |-> name, direction |-> direction, status |-> status]

\* A catch clause that handles its own error class and rethrows the rest.
migrate_catchRethrows(error) ==
  IF error.cls = "MigrationResultSetError"
  THEN [outcome |-> "returned", error |-> error.cause, hasResults |-> TRUE,
        results |-> error.results]
  ELSE [outcome |-> "thrown", error |-> error.cause, hasResults |-> FALSE,
        results |-> <<>>]

\* A catch clause that returns a results list with every error.
migrate_catchWithResults(error) ==
  [outcome |-> "returned", error |-> error.cause, hasResults |-> TRUE,
   results |-> error.results]

\* What the catch clause of Migrator.migrate makes of a thrown error.  An
\* error is [cls, cause, results]: results is the result set's list when cls
\* is MigrationResultSetError.
migrate_catch(error) ==
  IF error.cls = "MigrationResultSetError"
  THEN [outcome |-> "returned", error |-> error.cause, hasResults |-> TRUE,
        results |-> error.results]
  ELSE [outcome |-> "returned", error |-> error.cause, hasResults |-> FALSE,
        results |-> <<>>]

Error(cause) == [cls |-> "Error", cause |-> cause, results |-> <<>>]
MigrationResultSetError(cause, rs) ==
  [cls |-> "MigrationResultSetError", cause |-> cause, results |-> rs]

NoReturn == [outcome |-> "none", error |-> "none", hasResults |-> FALSE, results |-> <<>>]

\* A wrapper whose undo keeps the rows the transaction wrote.
rollbackKeepsRows(r) == txLog[r]

\* The committed table after the transaction wrapper's undo.run(): ROLLBACK
\* drops the transaction's rows.
rollback(r) == log

\* The committed table after the transaction wrapper's after.run(): COMMIT
\* installs the transaction's rows.
commit(r) == txLog[r]

\* The net effect of the operations of a committed transaction on applied.
Count(ops, n, direction) ==
  Cardinality({i \in 1..Len(ops) : ops[i].name = n /\ ops[i].direction = direction})
appliedAfter(ops) ==
  [n \in Names |-> applied[n] + Count(ops, n, "Up") - Count(ops, n, "Down")]

isMigrateToLatest(r) == call[r].method = "migrateToLatest"

\* No Up batch to remember.
NoUp == [names |-> <<>>, before |-> {}]

\* rs is the ResultSet of an Up batch of runner r that ran and succeeded.
isUpSuccess(r, rs) ==
  /\ call[r].direction = "Up"
  /\ rs.outcome = "returned" /\ rs.error = "none"
  /\ Len(rs.results) > 0

\* The call of runner r ends: migrate() gives rs to its caller.
Finish(r, rs) ==
  /\ pc' = [pc EXCEPT ![r] = "done"]
  /\ ret' = [ret EXCEPT ![r] = rs]
  /\ streak' = IF record # "streak" \/ ~isMigrateToLatest(r) THEN "none"
               ELSE IF rs.outcome = "returned" /\ rs.error = "none" THEN "ok"
               ELSE IF rs.outcome = "returned" /\ rs.hasResults THEN "failed"
               ELSE "none"
  /\ lastUp' = IF record = "lastUp" /\ isUpSuccess(r, rs)
               THEN [names |-> [i \in 1..Len(rs.results) |-> rs.results[i].migrationName],
                     before |-> rowNames(log0[r])]
               ELSE lastUp

\* An error thrown inside the transaction: the wrapper rolls back and rethrows,
\* migrate() catches.
ThrowInTransaction(r, error, kind) ==
  /\ log' = rollback(r)
  /\ lock' = "free"
  /\ fault' = [fault EXCEPT ![r] = kind]
  /\ Finish(r, migrate_catch(error))
  /\ UNCHANGED <<tableExists, applied, clock>>

\* ------------------------------------------------------------ the state

Kinds == {"absent", "up", "updown"}
Methods == {"migrateToLatest", "migrate"}
NoCall == [method |-> "none", direction |-> "none", step |-> 0]
NoList == [outcome |-> "none", list |-> <<>>]

\* A migrator just constructed over a database that has no migration table.
Constructed ==
  /\ provider \in [Names -> Kinds]
  /\ props \in [allowUnorderedMigrations : BOOLEAN]
  /\ tableExists = FALSE
  /\ log = {}
  /\ applied = [n \in Names |-> 0]
  /\ clock = 0
  /\ lock = "free"
  /\ pc = [r \in Runners |-> "idle"]
  /\ call = [r \in Runners |-> NoCall]
  /\ state = [r \in Runners |-> NoState]
  /\ cand = [r \in Runners |-> <<>>]
  /\ idx = [r \in Runners |-> 1]
  /\ results = [r \in Runners |-> <<>>]
  /\ txLog = [r \in Runners |-> {}]
  /\ ran = [r \in Runners |-> <<>>]
  /\ ret = [r \in Runners |-> NoReturn]
  /\ log0 = [r \in Runners |-> {}]
  /\ fault = [r \in Runners |-> "none"]
  /\ streak = "none"
  /\ after = [r \in Runners |-> "none"]
  /\ infos = [r \in Runners |-> NoList]
  /\ lastUp = NoUp

\* The histories are kept one at a time, each by the specification that
\* reads it.
Init == Constructed /\ record = "none"
InitTwice == Constructed /\ record = "streak"
InitRound == Constructed /\ record = "lastUp"

Quiet == \A r \in Runners : pc[r] = "idle"

\* ------------------------------------------------------- the environment
\* The provider is read once per call (resolveMigrations in getState), so a
\* change of the migration folder during a call is the same as one before or
\* after it: the environment acts between calls.

\* A migration file is added to the folder.
addMigration(n, kind) ==
  /\ Quiet
  /\ provider[n] = "absent"
  /\ kind # "absent"
  /\ provider' = [provider EXCEPT ![n] = kind]
  /\ streak' = "none"
  /\ lastUp' = NoUp
  /\ UNCHANGED <<record, infos, props, dbVars, pc, frameVars, ret, log0, fault, after>>

\* A migration file is removed from the folder.
removeMigration(n) ==
  /\ Quiet
  /\ provider[n] # "absent"
  /\ provider' = [provider EXCEPT ![n] = "absent"]
  /\ lastUp' = NoUp
  /\ UNCHANGED <<record, infos, props, dbVars, pc, frameVars, ret, log0, fault, streak, after>>

\* The wall clock is set back (an adjusted clock, another machine's clock).
clockBack(t) ==
  /\ Quiet
  /\ t < clock
  /\ clock' = t
  /\ lastUp' = NoUp
  /\ UNCHANGED <<record, infos, envVars, tableExists, log, applied, lock, pc, frameVars, ret,
                 log0, fault, streak, after>>

\* ------------------------------------------------------------- the calls

\* An executedAt that is a Date whichever row was found.
executedAtAlways(executed) ==
  [defined |-> TRUE,
   time |-> IF executed = {} THEN 0 ELSE (CHOOSE row \in executed : TRUE).timestamp]

\* getMigrations' "executed ? new Date(executed.timestamp) : undefined";
\* executed is the set of the rows find() looked through that have the name.
executedAt(executed) ==
  IF executed = {} THEN [defined |-> FALSE, time |-> 0]
  ELSE [defined |-> TRUE, time |-> (CHOOSE row \in executed : TRUE).timestamp]

\* The array getMigrations returns from the provider's record, whether the
\* migration table exists and its rows.
getMigrations_map(src, exists, rows) ==
  LET executedMigrations == IF exists THEN rows ELSE {}
      migrations == resolveMigrations(src)
  IN [i \in 1..Len(migrations) |->
        [name |-> migrations[i].name,
         migration |-> migrations[i],
         executedAt |-> executedAt({row \in executedMigrations :
                                      row.name = migrations[i].name})]]

\* Migrator.getMigrations: two reads and no write; a failing read or provider
\* throws to the caller.
getMigrations(r) ==
  /\ pc[r] = "idle"
  /\ pc' = [pc EXCEPT ![r] = "listed"]
  /\ \E ok \in BOOLEAN :
       infos' = [infos EXCEPT ![r] =
                   IF ok THEN [outcome |-> "returned",
                               list |-> getMigrations_map(provider, tableExists, log)]
                   ELSE [outcome |-> "thrown", list |-> <<>>]]
  /\ UNCHANGED <<record, envVars, dbVars, frameVars, ret, log0, fault, streak, after, lastUp>>

\* Migrator.migrate is entered, from migrateToLatest or with another
\* getMigrationDirectionAndStep.
migrate(r, method) ==
  /\ pc[r] = "idle"
  /\ pc' = [pc EXCEPT ![r] = "ensureMigrationTableExists"]
  /\ call' = [call EXCEPT ![r] = [method |-> method, direction |-> "none", step |-> 0]]
  /\ log0' = [log0 EXCEPT ![r] = log]
  /\ after' = [o \in Runners |->
                 IF o = r /\ Quiet THEN streak ELSE "none"]
  /\ UNCHANGED <<record, infos, envVars, dbVars, state, cand, idx, results, txLog, ran, ret,
                 fault, streak, lastUp>>

migrateToLatest(r) == migrate(r, "migrateToLatest")

\* Migrator.ensureMigrationTableExists: "create table if not exists", in
\* autocommit mode; creating the table needs the write lock.
ensureMigrationTableExists(r) ==
  /\ pc[r] = "ensureMigrationTableExists"
  /\ \E ok \in BOOLEAN :
       IF ok
       THEN /\ tableExists \/ lock = "free"
            /\ tableExists' = TRUE
            /\ pc' = [pc EXCEPT ![r] = "transaction"]
            /\ UNCHANGED <<log, applied, clock, lock, ret, fault, streak, lastUp>>
       ELSE /\ fault' = [fault EXCEPT ![r] = "CreateTable"]
            /\ Finish(r, migrate_catch(Error("CreateTableFailed")))
            /\ UNCHANGED dbVars
  /\ UNCHANGED <<record, infos, envVars, frameVars, log0, after>>

\* A transaction begun without taking the write lock.
immediateWithoutLock(r) ==
  /\ pc[r] = "transaction"
  /\ txLog' = [txLog EXCEPT ![r] = log]
  /\ pc' = [pc EXCEPT ![r] = "run"]
  /\ UNCHANGED <<record, infos, envVars, dbVars, call, state, cand, idx, results, ran, ret,
                 log0, fault, streak, lastUp, after>>

\* db.transaction(...).immediate(): BEGIN IMMEDIATE takes the write lock, or
\* fails (SQLITE_BUSY when the lock stays taken, an I/O error).
immediate(r) ==
  /\ pc[r] = "transaction"
  /\ \E ok \in BOOLEAN :
       IF ok
       THEN /\ lock = "free"
            /\ lock' = r
            /\ txLog' = [txLog EXCEPT ![r] = log]
            /\ pc' = [pc EXCEPT ![r] = "run"]
            /\ UNCHANGED <<tableExists, log, applied, clock, ret, fault, streak, lastUp>>
       ELSE /\ fault' = [fault EXCEPT ![r] = "Begin"]
            /\ Finish(r, migrate_catch(Error("BeginFailed")))
            /\ UNCHANGED <<dbVars, txLog>>
  /\ UNCHANGED <<record, infos, envVars, call, state, cand, idx, results, ran, log0, after>>

\* What getMigrationDirectionAndStep can return: migrateToLatest's returns
\* Up and Infinity.
getMigrationDirectionAndStep(method) ==
  IF method = "migrateToLatest"
  THEN {[direction |-> "Up", step |-> Infinity]}
  ELSE [direction : Directions, step : Steps]

\* The pc of the loop of migrateUp / migrateDown at index i.
loopPc(direction, i, n) ==
  IF i > n THEN "commit" ELSE IF direction = "Up" THEN "up" ELSE "down"

\* An early return that tests step === 0.
noStepOnlyZero(step) == step = 0

\* run's "if (step <= 0)".
noStep(step) == step <= 0

\* The closure run of runMigrations up to the loop of migrateUp / migrateDown:
\* getState, the early returns, the selection, the pre-populated results.
run(r) ==
  /\ pc[r] = "run"
  /\ \E providerOk \in BOOLEAN :
       LET st == getState(provider, txLog[r], props.allowUnorderedMigrations)
       IN IF ~providerOk
          THEN /\ ThrowInTransaction(r, Error("ProviderFailed"), "Provider")
               /\ UNCHANGED <<call, state, cand, results, idx>>
          ELSE IF st.error # "none"
          THEN /\ ThrowInTransaction(r, Error(st.error), "none")
               /\ UNCHANGED <<call, state, cand, results, idx>>
          ELSE IF Len(st.migrations) = 0
          THEN /\ state' = [state EXCEPT ![r] = st]
               /\ cand' = [cand EXCEPT ![r] = <<>>]
               /\ results' = [results EXCEPT ![r] = <<>>]
               /\ pc' = [pc EXCEPT ![r] = "commit"]
               /\ UNCHANGED <<dbVars, call, idx, ret, fault, streak, lastUp>>
          ELSE \E ds \in getMigrationDirectionAndStep(call[r].method) :
            LET direction == ds.direction
                step == ds.step
                selected == IF noStep(step) THEN <<>>
                            ELSE IF direction = "Down" THEN migrationsToRollback(st, step)
                            ELSE migrationsToRun(st, step)
            IN /\ call' = [call EXCEPT ![r].direction = direction, ![r].step = step]
               /\ state' = [state EXCEPT ![r] = st]
               /\ IF \E i \in 1..Len(selected) : selected[i].name = 0
                  THEN /\ ThrowInTransaction(r, Error("TypeError"), "none")
                       /\ UNCHANGED <<cand, results, idx>>
                  ELSE /\ cand' = [cand EXCEPT ![r] = selected]
                       /\ results' = [results EXCEPT ![r] = notExecuted(selected, direction)]
                       /\ idx' = [idx EXCEPT ![r] = 1]
                       /\ pc' = [pc EXCEPT ![r] = loopPc(direction, 1, Len(selected))]
                       /\ UNCHANGED <<dbVars, ret, fault, streak, lastUp>>
  /\ UNCHANGED <<record, infos, envVars, txLog, ran, log0, after>>

\* A loop body that goes on to the insert when up() has thrown.
migrateUp_upGoesOn(r) ==
  /\ pc[r] = "up"
  /\ ran' = [ran EXCEPT ![r] = Append(@, [name |-> state[r].pendingMigrations[idx[r]].name,
                                           direction |-> "Up"])]
  /\ pc' = [pc EXCEPT ![r] = "insert"]
  /\ \E ok \in BOOLEAN :
       fault' = IF ok THEN fault ELSE [fault EXCEPT ![r] = "Op"]
  /\ UNCHANGED <<dbVars, results, ret, streak, lastUp>>
  /\ UNCHANGED <<record, infos, envVars, call, state, cand, idx, txLog, log0, after>>

\* migrateUp's loop body, first statement: migration.up(db).
migrateUp_up(r) ==
  /\ pc[r] = "up"
  /\ LET i == idx[r]
         migration == state[r].pendingMigrations[i]
     IN /\ ran' = [ran EXCEPT ![r] = Append(@, [name |-> migration.name, direction |-> "Up"])]
        /\ \E ok \in BOOLEAN :
             IF ok
             THEN /\ pc' = [pc EXCEPT ![r] = "insert"]
                  /\ UNCHANGED <<dbVars, results, ret, fault, streak, lastUp>>
             ELSE /\ results' = [results EXCEPT ![r][i] = result(migration.name, "Up", "Error")]
                  /\ ThrowInTransaction(r, MigrationResultSetError("OpFailed", results'[r]), "Op")
  /\ UNCHANGED <<record, infos, envVars, call, state, cand, idx, txLog, log0, after>>

\* "insert into <table> (name, timestamp) values (?, ?)": the primary key on
\* name refuses a name the table holds.
insert(rows, name, timestamp) ==
  IF name \in rowNames(rows) THEN rows
  ELSE rows \cup {[name |-> name, timestamp |-> timestamp]}

\* migrateUp's loop body, the rest: the insert with new Date(), results[i].
migrateUp_insert(r) ==
  /\ pc[r] = "insert"
  /\ LET i == idx[r]
         migration == state[r].pendingMigrations[i]
     IN \E ok \in BOOLEAN, now \in clock..MaxClock :
          IF ok /\ migration.name \notin rowNames(txLog[r])
          THEN /\ txLog' = [txLog EXCEPT ![r] = insert(@, migration.name, now)]
               /\ clock' = now
               /\ results' = [results EXCEPT ![r][i] = result(migration.name, "Up", "Success")]
               /\ idx' = [idx EXCEPT ![r] = i + 1]
               /\ pc' = [pc EXCEPT ![r] = loopPc("Up", i + 1, Len(results[r]))]
               /\ UNCHANGED <<tableExists, log, applied, lock, ret, fault, streak, lastUp>>
          ELSE /\ now = clock
               /\ results' = [results EXCEPT ![r][i] = result(migration.name, "Up", "Error")]
               /\ ThrowInTransaction(r, MigrationResultSetError("LogWriteFailed", results'[r]), "LogWrite")
               /\ UNCHANGED <<txLog, idx>>
  /\ UNCHANGED <<record, infos, envVars, call, state, cand, ran, log0, after>>

\* A loop body without the test: every candidate's down is called.
hasDownAlways(migration) == TRUE

\* migrateDown's "if (migration.down)".
hasDown(migration) == migration.down

\* migrateDown's loop body, up to migration.down(db): a migration without a
\* down method is passed over.
migrateDown_down(r) ==
  /\ pc[r] = "down"
  /\ LET i == idx[r]
         migration == cand[r][i]
     IN IF ~hasDown(migration)
        THEN /\ idx' = [idx EXCEPT ![r] = i + 1]
             /\ pc' = [pc EXCEPT ![r] = loopPc("Down", i + 1, Len(results[r]))]
             /\ UNCHANGED <<dbVars, results, ran, ret, fault, streak, lastUp>>
        ELSE /\ ran' = [ran EXCEPT ![r] = Append(@, [name |-> migration.name, direction |-> "Down"])]
             /\ \E ok \in BOOLEAN :
                  IF ok
                  THEN /\ pc' = [pc EXCEPT ![r] = "delete"]
                       /\ UNCHANGED <<dbVars, results, idx, ret, fault, streak, lastUp>>
                  ELSE /\ results' = [results EXCEPT ![r][i] = result(migration.name, "Down", "Error")]
                       /\ ThrowInTransaction(r, MigrationResultSetError("OpFailed", results'[r]), "Op")
                       /\ UNCHANGED idx
  /\ UNCHANGED <<record, infos, envVars, call, state, cand, txLog, log0, after>>

\* "delete from <table> where name = ?".
delete(rows, name) == {row \in rows : row.name # name}

\* migrateDown's loop body, the rest: the delete, results[i].
migrateDown_delete(r) ==
  /\ pc[r] = "delete"
  /\ LET i == idx[r]
         migration == cand[r][i]
     IN \E ok \in BOOLEAN :
          IF ok
          THEN /\ txLog' = [txLog EXCEPT ![r] = delete(@, migration.name)]
               /\ results' = [results EXCEPT ![r][i] = result(migration.name, "Down", "Success")]
               /\ idx' = [idx EXCEPT ![r] = i + 1]
               /\ pc' = [pc EXCEPT ![r] = loopPc("Down", i + 1, Len(results[r]))]
               /\ UNCHANGED <<dbVars, ret, fault, streak, lastUp>>
          ELSE /\ results' = [results EXCEPT ![r][i] = result(migration.name, "Down", "Error")]
               /\ ThrowInTransaction(r, MigrationResultSetError("LogWriteFailed", results'[r]), "LogWrite")
               /\ UNCHANGED <<txLog, idx>>
  /\ UNCHANGED <<record, infos, envVars, call, state, cand, ran, log0, after>>

\* run() returned: the transaction wrapper commits, runMigrations returns the
\* result; a failing COMMIT is rolled back and rethrown.
transactionCommit(r) ==
  /\ pc[r] = "commit"
  /\ \E ok \in BOOLEAN :
       IF ok
       THEN /\ log' = commit(r)
            /\ applied' = appliedAfter(ran[r])
            /\ lock' = "free"
            /\ Finish(r, [outcome |-> "returned", error |-> "none",
                          hasResults |-> TRUE, results |-> results[r]])
            /\ UNCHANGED <<tableExists, clock, fault>>
       ELSE ThrowInTransaction(r, Error("CommitFailed"), "Commit")
  /\ UNCHANGED <<record, infos, envVars, frameVars, log0, after>>

\* The caller has the ResultSet or the list; the call's frame is gone.
returnToCaller(r) ==
  /\ pc[r] \in {"done", "listed"}
  /\ infos' = [infos EXCEPT ![r] = NoList]
  /\ lastUp' = IF pc[r] = "listed" \/ isUpSuccess(r, ret[r]) THEN lastUp ELSE NoUp
  /\ pc' = [pc EXCEPT ![r] = "idle"]
  /\ call' = [call EXCEPT ![r] = NoCall]
  /\ state' = [state EXCEPT ![r] = NoState]
  /\ cand' = [cand EXCEPT ![r] = <<>>]
  /\ idx' = [idx EXCEPT ![r] = 1]
  /\ results' = [results EXCEPT ![r] = <<>>]
  /\ txLog' = [txLog EXCEPT ![r] = {}]
  /\ ran' = [ran EXCEPT ![r] = <<>>]
  /\ ret' = [ret EXCEPT ![r] = NoReturn]
  /\ log0' = [log0 EXCEPT ![r] = {}]
  /\ fault' = [fault EXCEPT ![r] = "none"]
  /\ after' = [after EXCEPT ![r] = "none"]
  /\ UNCHANGED <<record, envVars, dbVars, streak>>

\* --------------------------------------------------- the specifications

\* One migrator, any call, a changing migration folder and clock.
Next ==
  \/ \E n \in Names, kind \in Kinds : addMigration(n, kind)
  \/ \E n \in Names : removeMigration(n)
  \/ \E t \in Times : clockBack(t)
  \/ \E method \in Methods : migrate("r1", method)
  \/ getMigrations("r1")
  \/ ensureMigrationTableExists("r1")
  \/ immediate("r1")
  \/ run("r1")
  \/ migrateUp_up("r1")
  \/ migrateUp_insert("r1")
  \/ migrateDown_down("r1")
  \/ migrateDown_delete("r1")
  \/ transactionCommit("r1")
  \/ returnToCaller("r1")

Spec == Init /\ [][Next]_vars

\* The same migrator, remembering how its latest call ended.
SpecTwice == InitTwice /\ [][Next]_vars

\* The same migrator over a folder that only grows, remembering its latest
\* successful Up batch.
NextRound ==
  \/ \E n \in Names, kind \in Kinds : addMigration(n, kind)
  \/ \E t \in Times : clockBack(t)
  \/ \E method \in Methods : migrate("r1", method)
  \/ ensureMigrationTableExists("r1")
  \/ immediate("r1")
  \/ run("r1")
  \/ migrateUp_up("r1")
  \/ migrateUp_insert("r1")
  \/ migrateDown_down("r1")
  \/ migrateDown_delete("r1")
  \/ transactionCommit("r1")
  \/ returnToCaller("r1")

SpecRound == InitRound /\ [][NextRound]_vars

\* ------------------------------------------------------------ the claims

Done(r) == pc[r] = "done"

\* The migrations of the provider, by name.
sourceNames == {n \in Names : provider[n] # "absent"}

\* The index of the first result with the status, or 0.
firstWith(rs, status) ==
  IF \E i \in 1..Len(rs) : rs[i].status = status
  THEN CHOOSE i \in 1..Len(rs) :
         rs[i].status = status /\ \A j \in 1..(i - 1) : rs[j].status # status
  ELSE 0

statuses(rs) == [i \in 1..Len(rs) |-> rs[i].status]

\* The call ran an operation of the migration.
ranFor(r, n) == \E i \in 1..Len(ran[r]) : ran[r][i].name = n

\* The committed effect of the operations agrees with the committed log.
AppliedIsLogged ==
  \A n \in Names : applied[n] = (IF n \in rowNames(log) THEN 1 ELSE 0)

\* C1: when an operation of a batch (an up(), a down(), or the log write that
\* follows it) fails, the rows of the log table after the call are its rows
\* before the call and no operation's effect is committed, although the
\* results report Success for every candidate that ran before the failing one.
C1_Atomicity ==
  \A r \in Runners :
    (Done(r) /\ fault[r] \in {"Op", "LogWrite"}) =>
      LET rs == ret[r].results
          k == firstWith(rs, "Error")
      IN /\ log = log0[r]
         /\ AppliedIsLogged
         /\ k > 0
         /\ \A i \in 1..(k - 1) :
              ranFor(r, rs[i].migrationName) => rs[i].status = "Success"

\* C1's case: an Up batch of A, B, C in which A and B succeed and C fails.
C1_Witness ==
  /\ Done("r1")
  /\ call["r1"].direction = "Up"
  /\ fault["r1"] = "Op"
  /\ statuses(ret["r1"].results) = <<"Success", "Success", "Error">>
  /\ Len(ran["r1"]) = 3
  /\ log = log0["r1"]

\* The log holds a name the provider does not return.
LogHasMissing(rows) == \E row \in rows : provider[row.name] = "absent"

\* C2: when the log holds a name the provider does not return, every call
\* returns a top-level error and no results list, runs no up() or down(), and
\* leaves the log rows as they were; the direction and the step play no part,
\* the call ends before getMigrationDirectionAndStep is asked for them.
C2_MissingMigration ==
  \A r \in Runners :
    (Done(r) /\ LogHasMissing(log0[r])) =>
      /\ ret[r].error # "none"
      /\ ~ret[r].hasResults
      /\ ran[r] = <<>>
      /\ log = log0[r]

\* C2's case: a call stopped by the missing-migration check, before
\* getMigrationDirectionAndStep is asked for a direction and a step; the other
\* logged migrations are still in the provider.
C2_Witness ==
  /\ Done("r1")
  /\ LogHasMissing(log0["r1"])
  /\ Cardinality(log0["r1"]) >= 2
  /\ sourceNames # {}
  /\ call["r1"].method = "migrate"
  /\ ret["r1"].error = "CorruptedMissing"
  /\ ~ret["r1"].hasResults
  /\ log = log0["r1"]

\* The provider holds a migration that is not logged and sorts before the
\* last executed one.
SortsBeforeLast(rows) ==
  /\ rows # {}
  /\ \E n \in sourceNames :
       /\ n \notin rowNames(rows)
       /\ n < lastMigration(getExecutedMigrations(rows))

\* A failure of the environment that ends the call before getState's checks.
BeforeResolution == {"CreateTable", "Begin", "Provider"}
Corrupted == {"CorruptedMissing", "CorruptedOrder"}

\* C3: with unordered migrations not allowed, when the provider holds an
\* unlogged migration whose name sorts before the last executed one, the
\* call returns a top-level error and no results, runs no migration and
\* leaves the log unchanged; the error is the corrupted-migrations error
\* unless the environment failed the call before the state was resolved.
C3_OrderingInvariant ==
  \A r \in Runners :
    (Done(r) /\ ~props.allowUnorderedMigrations /\ SortsBeforeLast(log0[r])) =>
      /\ ret[r].error # "none"
      /\ ~ret[r].hasResults
      /\ ran[r] = <<>>
      /\ log = log0[r]
      /\ fault[r] \notin BeforeResolution => ret[r].error \in Corrupted

\* C3's case: migrations 2 and 3 were executed, migration 1 was added since,
\* and the call fails on the order check.
C3_Witness ==
  /\ Done("r1")
  /\ ~props.allowUnorderedMigrations
  /\ rowNames(log0["r1"]) = {2, 3}
  /\ sourceNames = {1, 2, 3}
  /\ ret["r1"].error = "CorruptedOrder"
  /\ ~ret["r1"].hasResults
  /\ log = log0["r1"]

\* C4 as stated: the second of two migrateToLatest() calls in a row, with no
\* migration added in between, returns an empty results list.  (Stated for a
\* first call that got as far as its batch and a second call that returns
\* without error.)
C4_Original ==
  \A r \in Runners :
    (Done(r) /\ isMigrateToLatest(r) /\ after[r] \in {"ok", "failed"}
       /\ ret[r].error = "none") =>
      /\ ret[r].hasResults
      /\ ret[r].results = <<>>

\* C4 amended: when the first migrateToLatest() returned without error and no
\* migration was added since, the second call runs no migration and leaves
\* the log unchanged, and when it returns without error its results list is
\* empty; it never returns a results list that is not empty.
C4_IdempotentAfterSuccess ==
  \A r \in Runners :
    (Done(r) /\ isMigrateToLatest(r) /\ after[r] = "ok") =>
      /\ ran[r] = <<>>
      /\ log = log0[r]
      /\ ret[r].results = <<>>
      /\ ret[r].error = "none" => ret[r].hasResults
      /\ ret[r].error # "none" => ~ret[r].hasResults

\* C4's case: the first call logged migrations, the second returns results = [].
C4_Witness ==
  /\ Done("r1")
  /\ isMigrateToLatest("r1")
  /\ after["r1"] = "ok"
  /\ log # {}
  /\ ret["r1"].error = "none"
  /\ ret["r1"].hasResults
  /\ ret["r1"].results = <<>>

\* The log satisfies the two invariants getState checks.
ValidLog(rows) ==
  /\ rowNames(rows) \subseteq sourceNames
  /\ \/ props.allowUnorderedMigrations
     \/ getExecutedMigrations(rows) = SubSeq(sort(sourceNames), 1, Cardinality(rows))

\* C5: from a valid state, a migrateToLatest() in which nothing fails (no
\* up(), and nothing of the database or the provider) returns no error and a
\* results list holding exactly the migrations that were pending, in ascending
\* name order, each Up and Success; afterwards the log holds one row for every
\* migration of the provider and keeps its old rows.
C5_MigrateToLatest ==
  \A r \in Runners :
    (Done(r) /\ isMigrateToLatest(r) /\ fault[r] = "none" /\ ValidLog(log0[r])) =>
      LET pending == sort(sourceNames \ rowNames(log0[r]))
      IN /\ ret[r].error = "none"
         /\ ret[r].hasResults
         /\ ret[r].results =
              [i \in 1..Len(pending) |-> result(pending[i], "Up", "Success")]
         /\ rowNames(log) = sourceNames
         /\ Cardinality(log) = Cardinality(sourceNames)
         /\ log0[r] \subseteq log
         /\ AppliedIsLogged

\* C5's case: migration 1 was logged, migrations 2 and 3 were pending and are
\* now logged.
C5_Witness ==
  /\ Done("r1")
  /\ isMigrateToLatest("r1")
  /\ fault["r1"] = "none"
  /\ rowNames(log0["r1"]) = {1}
  /\ ret["r1"].error = "none"
  /\ ret["r1"].results = <<result(2, "Up", "Success"), result(3, "Up", "Success")>>
  /\ rowNames(log) = {1, 2, 3}

\* C6: a call never ends by raising an error: whatever fails in it (the table
\* creation, BEGIN, the provider, getState's checks, an up() or down(), a log
\* write, COMMIT), migrate() returns a ResultSet to its caller.
C6_NeverThrows ==
  \A r \in Runners :
    /\ ret[r].outcome \in {"none", "returned"}
    /\ Done(r) => ret[r].outcome = "returned"

\* C6's case: COMMIT failed after the batch ran, and the call returned.
C6_Witness ==
  /\ Done("r1")
  /\ fault["r1"] = "Commit"
  /\ ran["r1"] # <<>>
  /\ ret["r1"].outcome = "returned"
  /\ ret["r1"].error = "CommitFailed"

\* The call failed before its candidates were established: the table
\* creation, BEGIN or the provider failed, or getState threw.
FailedBeforeCandidates(r) ==
  \/ fault[r] \in BeforeResolution
  \/ getState(provider, log0[r], props.allowUnorderedMigrations).error # "none"

\* C7: a returned ResultSet has a results list or a top-level error, never
\* neither; a call that failed before its candidates were established returns
\* the error and no results list.
C7_ResultSetShape ==
  \A r \in Runners :
    Done(r) =>
      /\ ret[r].hasResults \/ ret[r].error # "none"
      /\ FailedBeforeCandidates(r) => (ret[r].error # "none" /\ ~ret[r].hasResults)

\* C7's case: the table creation failed.
C7_Witness ==
  /\ Done("r1")
  /\ fault["r1"] = "CreateTable"
  /\ ret["r1"].error = "CreateTableFailed"
  /\ ~ret["r1"].hasResults

\* C8: when an operation of a batch fails, the ResultSet has the top-level
\* error and one result per selected candidate, in selection order; exactly one
\* result is Error, every result after it is NotExecuted and its migration's
\* operation was not run, every result before it is Success or, in a Down
\* batch, NotExecuted for a migration without a down method.
C8_PartialFailure ==
  \A r \in Runners :
    (Done(r) /\ fault[r] \in {"Op", "LogWrite"}) =>
      LET rs == ret[r].results
          k == firstWith(rs, "Error")
      IN /\ ret[r].error # "none"
         /\ ret[r].hasResults
         /\ Len(rs) = Len(cand[r])
         /\ \A i \in 1..Len(rs) :
              /\ rs[i].migrationName = cand[r][i].name
              /\ rs[i].direction = call[r].direction
         /\ Cardinality({i \in 1..Len(rs) : rs[i].status = "Error"}) = 1
         /\ \A i \in 1..Len(rs) :
              /\ i > k => (rs[i].status = "NotExecuted" /\ ~ranFor(r, rs[i].migrationName))
              /\ i < k =>
                   \/ rs[i].status = "Success"
                   \/ /\ call[r].direction = "Down"
                      /\ ~cand[r][i].down
                      /\ rs[i].status = "NotExecuted"

\* C8's case: the second of three candidates fails.
C8_Witness ==
  /\ Done("r1")
  /\ fault["r1"] \in {"Op", "LogWrite"}
  /\ statuses(ret["r1"].results) = <<"Success", "Error", "NotExecuted">>
  /\ ret["r1"].error # "none"

NextConc ==
  \E r \in Runners :
    \/ migrateToLatest(r)
    \/ ensureMigrationTableExists(r)
    \/ immediate(r)
    \/ run(r)
    \/ migrateUp_up(r)
    \/ migrateUp_insert(r)
    \/ transactionCommit(r)
    \/ returnToCaller(r)

SpecConc == Init /\ [][NextConc]_vars

InTransaction(r) == pc[r] \in {"run", "up", "insert", "commit"}

\* C10: with two migrators running migrateToLatest() concurrently, the effect
\* of each migration's up() is committed at most once and its name is logged
\* at most once; a runner inside its transaction holds the write lock, and the
\* executed list it works from is the committed log.
C10_ConcurrentRunners ==
  /\ \A n \in Names :
       /\ applied[n] <= 1
       /\ Cardinality({row \in log : row.name = n}) <= 1
       /\ applied[n] = (IF n \in rowNames(log) THEN 1 ELSE 0)
  /\ \A r \in Runners :
       /\ InTransaction(r) => lock = r
       /\ pc[r] \in {"up", "insert", "commit"} =>
            state[r].executedMigrations = getExecutedMigrations(log)

\* C10's case: both calls started on the empty log; one applied the
\* migrations, the other found nothing pending.
C10_Witness ==
  /\ Done("r1") /\ Done("r2")
  /\ log0["r1"] = {} /\ log0["r2"] = {}
  /\ ret["r1"].error = "none" /\ ret["r2"].error = "none"
  /\ Len(ret["r1"].results) >= 2
  /\ ret["r2"].hasResults /\ ret["r2"].results = <<>>
  /\ Cardinality(log) >= 2

\* ------------------------------------------------- the later claims

\* The least name of the provider that is not logged, or 0.
leastUnlogged(rows) ==
  IF sourceNames \subseteq rowNames(rows) THEN 0
  ELSE CHOOSE n \in sourceNames \ rowNames(rows) :
         \A m \in sourceNames \ rowNames(rows) : n <= m

\* C11: with unordered migrations allowed and every logged name in the
\* provider, an unlogged migration that sorts before the last executed one
\* never makes a call fail with the corrupted-migrations error; it is pending:
\* an Up call of a step > 0 in which nothing fails runs the least such
\* migration first and logs it, and migrateToLatest logs them all.
C11_UnorderedMode ==
  \A r \in Runners :
    (Done(r) /\ props.allowUnorderedMigrations /\ ~LogHasMissing(log0[r])
       /\ SortsBeforeLast(log0[r])) =>
      /\ ret[r].error \notin Corrupted
      /\ (call[r].direction = "Up" /\ call[r].step > 0 /\ fault[r] = "none") =>
           LET n == leastUnlogged(log0[r])
           IN /\ ret[r].error = "none"
              /\ ret[r].hasResults
              /\ Len(ret[r].results) >= 1
              /\ ret[r].results[1] = result(n, "Up", "Success")
              /\ ran[r][1] = [name |-> n, direction |-> "Up"]
              /\ n \in rowNames(log)
              /\ call[r].step = Infinity => sourceNames \subseteq rowNames(log)

\* C11's case: migrations 2 and 3 were executed, migration 1 was added since
\* and an Up call ran and logged it.
C11_Witness ==
  /\ Done("r1")
  /\ props.allowUnorderedMigrations
  /\ rowNames(log0["r1"]) = {2, 3}
  /\ sourceNames = {1, 2, 3}
  /\ ret["r1"].error = "none"
  /\ ret["r1"].results = <<result(1, "Up", "Success")>>
  /\ rowNames(log) = {1, 2, 3}

\* C12: when the state resolves and the provider has no migration or the
\* step is <= 0, a call returns results = [] and no error unless the database
\* or the provider fails; in every case it runs no operation and leaves the
\* log rows unchanged.
C12_EmptyBatch ==
  \A r \in Runners :
    (Done(r)
       /\ getState(provider, log0[r], props.allowUnorderedMigrations).error = "none"
       /\ (sourceNames = {} \/ (call[r].direction # "none" /\ call[r].step <= 0))) =>
      /\ ran[r] = <<>>
      /\ log = log0[r]
      /\ fault[r] = "none" =>
           /\ ret[r].error = "none"
           /\ ret[r].hasResults
           /\ ret[r].results = <<>>

\* C12's case: a Down call of a negative step on a log of two rows.
C12_Witness ==
  /\ Done("r1")
  /\ call["r1"].direction = "Down"
  /\ call["r1"].step < 0
  /\ Cardinality(log0["r1"]) = 2
  /\ ret["r1"].error = "none"
  /\ ret["r1"].hasResults
  /\ ret["r1"].results = <<>>
  /\ log = log0["r1"]

\* C13: getMigrations() returns one entry per migration of the provider, in
\* ascending name order, whose executedAt is defined exactly when the name has
\* a row in the log, and then is that row's timestamp (none is defined while
\* the migration table does not exist); the call changes neither the rows nor
\* the existence of the table.
C13_Introspection ==
  /\ [](\A r \in Runners :
          infos[r].outcome = "returned" =>
            LET list == infos[r].list
            IN /\ {list[i].name : i \in 1..Len(list)} = sourceNames
               /\ Len(list) = Cardinality(sourceNames)
               /\ \A i, j \in 1..Len(list) : i < j => list[i].name < list[j].name
               /\ \A i \in 1..Len(list) :
                    /\ list[i].executedAt.defined <=> list[i].name \in rowNames(log)
                    /\ list[i].executedAt.defined =>
                         [name |-> list[i].name,
                          timestamp |-> list[i].executedAt.time] \in log
                    /\ ~tableExists => ~list[i].executedAt.defined)
  /\ [][\A r \in Runners :
          (pc[r] = "idle" /\ pc'[r] = "listed") =>
            (log' = log /\ tableExists' = tableExists)]_vars

\* C13's case: the list of three migrations of which the first two are logged.
C13_Witness ==
  /\ infos["r1"].outcome = "returned"
  /\ Len(infos["r1"].list) = 3
  /\ infos["r1"].list[1].executedAt.defined
  /\ infos["r1"].list[2].executedAt.defined
  /\ ~infos["r1"].list[3].executedAt.defined
  /\ rowNames(log) = {1, 2}

\* The call of runner r has resolved its state and taken its direction.
Batch(r, direction) == call[r].direction = direction /\ call[r].step > 0

\* An Up batch that has selected its candidates.
C14_Case(r) == Batch(r, "Up")

\* C14: the candidates of an Up batch of a step > 0 are the first
\* min(step, number of pending) entries of pendingMigrations, in ascending name
\* order, each result entry names its candidate, and the i-th operation the
\* batch runs is the forward operation of the migration the i-th result names.
C14_UpSelection ==
  \A r \in Runners :
    C14_Case(r) =>
      LET pending == state[r].pendingMigrations
          k == Min(call[r].step, Len(pending))
      IN /\ cand[r] = SubSeq(pending, 1, k)
         /\ \A i, j \in 1..Len(cand[r]) : i < j => cand[r][i].name < cand[r][j].name
         /\ Len(results[r]) = k
         /\ \A i \in 1..k : results[r][i].migrationName = cand[r][i].name
         /\ Len(ran[r]) <= k
         /\ \A i \in 1..Len(ran[r]) :
              ran[r][i] = [name |-> results[r][i].migrationName, direction |-> "Up"]

\* C14's case: an Up call of step 1 with more than one pending migration ran
\* the first one.
C14_Witness ==
  /\ Done("r1")
  /\ C14_Case("r1")
  /\ call["r1"].step = 1
  /\ Len(state["r1"].pendingMigrations) >= 2
  /\ ret["r1"].error = "none"
  /\ Len(ran["r1"]) = 1
  /\ Len(ret["r1"].results) = 1

\* The row of the name, and "row a was executed after row b": its timestamp is
\* later, or the same and its name is greater.
rowOf(rows, n) == CHOOSE row \in rows : row.name = n
Later(a, b) ==
  \/ a.timestamp > b.timestamp
  \/ a.timestamp = b.timestamp /\ a.name > b.name

\* C15: the candidates of a Down batch of a step > 0 are the
\* min(step, number of executed) latest rows of the log by (timestamp, name),
\* the latest first (the greater name first among equal timestamps), whatever
\* the order of their names; the backward operations run in that order.
C15_DownSelection ==
  \A r \in Runners :
    Batch(r, "Down") =>
      LET c == cand[r]
          rows == log0[r]
          picked == {c[i].name : i \in 1..Len(c)}
      IN /\ Len(c) = Min(call[r].step, Cardinality(rows))
         /\ picked \subseteq rowNames(rows)
         /\ \A i, j \in 1..Len(c) :
              i < j => Later(rowOf(rows, c[i].name), rowOf(rows, c[j].name))
         /\ \A row \in rows :
              row.name \notin picked =>
                \A i \in 1..Len(c) : Later(rowOf(rows, c[i].name), row)
         /\ \A i \in 1..Len(ran[r]) :
              /\ ran[r][i].direction = "Down"
              /\ ran[r][i].name \in picked
         /\ \A i, j \in 1..Len(ran[r]) :
              i < j => Later(rowOf(rows, ran[r][i].name), rowOf(rows, ran[r][j].name))

\* C15's case: migration 1 was executed after migration 2, and a Down call of
\* step 1 rolled back migration 1.
C15_Witness ==
  /\ Done("r1")
  /\ Batch("r1", "Down")
  /\ call["r1"].step = 1
  /\ rowNames(log0["r1"]) = {1, 2}
  /\ Later(rowOf(log0["r1"], 1), rowOf(log0["r1"], 2))
  /\ ret["r1"].results = <<result(1, "Down", "Success")>>
  /\ rowNames(log) = {2}

\* The call of runner r holds the state getState returned.
Resolved(r) ==
  \/ pc[r] \in {"up", "insert", "down", "delete", "commit"}
  \/ Done(r) /\ ret[r].hasResults

\* The index of the name in the migrations list.
indexIn(migrations, n) == CHOOSE i \in 1..Len(migrations) : migrations[i].name = n

\* C16: in every resolved state, pendingMigrations is the migrations whose
\* name is not in executedNames, in the order they have in the name-sorted
\* migrations list, and lastMigration is the last entry of executedNames (the
\* name of the row executed last), or absent when the log is empty.
C16_PendingDerivation ==
  \A r \in Runners :
    Resolved(r) =>
      LET st == state[r]
          executed == {st.executedMigrations[i] : i \in 1..Len(st.executedMigrations)}
          names == {st.migrations[i].name : i \in 1..Len(st.migrations)}
          pending == st.pendingMigrations
      IN /\ names = sourceNames
         /\ \A i, j \in 1..Len(st.migrations) :
              i < j => st.migrations[i].name < st.migrations[j].name
         /\ executed = rowNames(log0[r])
         /\ {pending[i].name : i \in 1..Len(pending)} = names \ executed
         /\ \A i \in 1..Len(pending) :
              pending[i] = st.migrations[indexIn(st.migrations, pending[i].name)]
         /\ \A i, j \in 1..Len(pending) :
              i < j => indexIn(st.migrations, pending[i].name)
                         < indexIn(st.migrations, pending[j].name)
         /\ (st.lastMigration = 0) <=> (log0[r] = {})
         /\ log0[r] # {} =>
              /\ st.lastMigration = st.executedMigrations[Len(st.executedMigrations)]
              /\ \A row \in log0[r] :
                   row.name # st.lastMigration =>
                     Later(rowOf(log0[r], st.lastMigration), row)

\* C16's case: a state resolved with migration 2 logged, migrations 1 and 3
\* pending and migration 2 the last one.
C16_Witness ==
  /\ Resolved("r1")
  /\ rowNames(log0["r1"]) = {2}
  /\ Len(state["r1"].pendingMigrations) = 2
  /\ state["r1"].pendingMigrations[1].name = 1
  /\ state["r1"].pendingMigrations[2].name = 3
  /\ state["r1"].lastMigration = 2

\* The names of the rows the transaction of runner r has added.
inserted(r) == rowNames(txLog[r]) \ rowNames(log0[r])

\* C17: inside an Up batch the candidates are processed one after another in
\* the derived order: a forward operation starts only when every earlier
\* candidate is logged and marked Success, a name is inserted only after the
\* candidate's forward operation returned without error, a result is Success
\* only with the insert, and a failing insert ends the batch with the
\* candidate marked Error exactly as a failing forward operation does.
C17_StepOrdering ==
  /\ [](\A r \in Runners :
          Batch(r, "Up") =>
            LET i == idx[r]
                k == Len(cand[r])
            IN /\ \A j \in 1..Len(ran[r]) : ran[r][j].name = cand[r][j].name
               /\ inserted(r) = {cand[r][j].name : j \in 1..(i - 1)}
               /\ \A j \in 1..k :
                    results[r][j].status = "Success" <=> cand[r][j].name \in inserted(r)
               /\ pc[r] = "up" => Len(ran[r]) = i - 1 /\ fault[r] = "none"
               /\ pc[r] = "insert" => Len(ran[r]) = i /\ fault[r] = "none"
               /\ pc[r] = "commit" => Len(ran[r]) = k /\ i = k + 1
               /\ (Done(r) /\ fault[r] \in {"Op", "LogWrite"}) =>
                    /\ Len(ran[r]) = i
                    /\ \A j \in 1..k :
                         results[r][j].status =
                           (IF j < i THEN "Success"
                            ELSE IF j = i THEN "Error" ELSE "NotExecuted")
                    /\ ret[r].results = results[r]
                    /\ ret[r].error # "none"
                    /\ log = log0[r])
  /\ [][\A r \in Runners :
          (Batch(r, "Up") /\ Len(ran'[r]) > Len(ran[r])) =>
            /\ ran'[r] = Append(ran[r], [name |-> cand[r][idx[r]].name, direction |-> "Up"])
            /\ results[r][idx[r]].status = "NotExecuted"
            /\ \A j \in 1..(idx[r] - 1) :
                 /\ results[r][j].status = "Success"
                 /\ cand[r][j].name \in rowNames(txLog[r])]_vars
  /\ [][\A r \in Runners :
          (Batch(r, "Up") /\ txLog'[r] # txLog[r] /\ pc[r] # "done") =>
            /\ pc[r] = "insert"
            /\ ran[r][Len(ran[r])].name = cand[r][idx[r]].name
            /\ inserted(r)' = inserted(r) \cup {cand[r][idx[r]].name}
            /\ results'[r][idx[r]].status = "Success"
            /\ idx'[r] = idx[r] + 1]_vars

\* C17's case: the insert of the second of three candidates failed after the
\* first was logged and the second's forward operation had returned.
C17_Witness ==
  /\ Done("r1")
  /\ Batch("r1", "Up")
  /\ fault["r1"] = "LogWrite"
  /\ Len(ran["r1"]) = 2
  /\ statuses(ret["r1"].results) = <<"Success", "Error", "NotExecuted">>

\* One migrator over a fixed migration folder and a clock that only advances:
\* any orchestration call, nothing else.
NextFixed ==
  \/ \E method \in Methods : migrate("r1", method)
  \/ ensureMigrationTableExists("r1")
  \/ immediate("r1")
  \/ run("r1")
  \/ migrateUp_up("r1")
  \/ migrateUp_insert("r1")
  \/ migrateDown_down("r1")
  \/ migrateDown_delete("r1")
  \/ transactionCommit("r1")
  \/ returnToCaller("r1")

SpecFixed == Init /\ [][NextFixed]_vars

\* The rows, from the first executed to the last, name the first migrations of
\* the provider in name order.
LogIsPrefix(rows) ==
  /\ rowNames(rows) \subseteq sourceNames
  /\ \A n \in rowNames(rows) : \A m \in sourceNames : m < n => m \in rowNames(rows)
  /\ \A a, b \in rows : a.name < b.name => Later(b, a)

\* C18: with unordered migrations not allowed, a fixed provider and a clock
\* that never goes back, from an empty log and after any orchestration calls
\* the committed log, ordered by (timestamp, name), is a prefix of the
\* name-sorted migrations list, and no call fails with the
\* corrupted-migrations error.
C18_LogStaysPrefix ==
  ~props.allowUnorderedMigrations =>
    /\ LogIsPrefix(log)
    /\ \A r \in Runners : Done(r) => ret[r].error \notin Corrupted

\* C19: the log holds each migration name at most once; an Up batch never
\* runs the forward operation of a migration whose name is in the log when
\* the call starts, a Down batch never runs the backward operation of one
\* whose name is not.
C19_NoRepeat ==
  /\ \A a, b \in log : a.name = b.name => a = b
  /\ \A r \in Runners :
       /\ \A a, b \in txLog[r] : a.name = b.name => a = b
       /\ \A i \in 1..Len(ran[r]) :
            /\ ran[r][i].direction = "Up" => ran[r][i].name \notin rowNames(log0[r])
            /\ ran[r][i].direction = "Down" => ran[r][i].name \in rowNames(log0[r])
       /\ \A i, j \in 1..Len(ran[r]) : i # j => ran[r][i].name # ran[r][j].name

\* C19's case: with migration 1 logged and migration 2 not, an Up call ran
\* the forward operation of 2 alone and logged it.
C19_Witness ==
  /\ Done("r1")
  /\ sourceNames = {1, 2}
  /\ call["r1"].step = Infinity
  /\ ret["r1"].error = "none"
  /\ call["r1"].direction = "Up"
  /\ rowNames(log0["r1"]) = {1}
  /\ ran["r1"] = <<[name |-> 2, direction |-> "Up"]>>
  /\ rowNames(log) = {1, 2}

\* A Down batch of runner r that succeeded, of step k, that follows a
\* successful Up batch of k migrations which all have a down method.
RoundTrip(r) ==
  /\ Done(r)
  /\ Batch(r, "Down")
  /\ ret[r].error = "none"
  /\ lastUp # NoUp
  /\ call[r].step = Len(lastUp.names)
  /\ \A i \in 1..Len(lastUp.names) : provider[lastUp.names[i]] = "updown"

\* The Down batch gave back what the Up batch had done.
Undone(r) ==
  /\ rowNames(log) = lastUp.before
  /\ [i \in 1..Len(ret[r].results) |-> ret[r].results[i].migrationName]
       = [i \in 1..Len(lastUp.names) |-> lastUp.names[Len(lastUp.names) + 1 - i]]

UpRowsLatest(r) ==
  \A a, b \in log0[r] :
    (a.name \notin lastUp.before /\ b.name \in lastUp.before) => Later(a, b)

====
